---- MODULE Spec2Model ----
(***************************************************************************)
(* Empire of Silence: the crime-resolution and progression engine and the  *)
(* prison subsystem, as implemented by the Express handlers of the         *)
(* repository.  The repository holds several builds of the same backend;   *)
(* a behaviour of this model runs one of them from start to end:           *)
(*   "fixed"    src/unnamed/part_001   (crimes by rank table, bail, bust)  *)
(*   "prestige" src/unnamed/part_002   (crimes with getRank/checkPrestige) *)
(*   "service"  src/node-service/app.js (crimes hit / smuggling / bribe)   *)
(*   "jobs"     src/unnamed/part_002   (POST /jobs, second server file)    *)
(* Time is counted in seconds.  A handler runs as one step (sequential     *)
(* use: one request at a time).                                            *)
(***************************************************************************)
EXTENDS Integers, Sequences, FiniteSets, TLC

VARIABLES build, players, jobs, now, nreq, last, probe, roll, users, owner, regs, reqs

vars == <<build, players, jobs, now, nreq, last, probe, roll, users, owner, regs, reqs>>

\* the accounts table, the user_id and name columns of the players rows, and
\* the registration requests in flight
accounts == <<users, owner, regs>>

(***************************************************************************)
(* Bounds of the model.                                                    *)
(***************************************************************************)
MaxRequests == 2
MaxTicks == 2
MaxRegs == 3
MaxRaceReqs == 3
TickSeconds == 30
RandDen == 1000
ProbeDelta == 6

(***************************************************************************)
(* Static data.                                                            *)
(***************************************************************************)
NULL == -1

NoRank == "NULL"

Builds == {"fixed", "prestige", "service", "jobs"}

PlayerIds == {1, 2}

\* const ranks = [ {name, xp}, ... ]
ranks ==
  << [name |-> "Street Rat",  xp |-> 0],
     [name |-> "Errand Boy",  xp |-> 100],
     [name |-> "Associate",   xp |-> 300],
     [name |-> "Muscle",      xp |-> 800],
     [name |-> "Enforcer",    xp |-> 2000],
     [name |-> "Caporegime",  xp |-> 5000],
     [name |-> "Underboss",   xp |-> 15000],
     [name |-> "Consigliere", xp |-> 40000],
     [name |-> "Boss",        xp |-> 100000],
     [name |-> "Godfather",   xp |-> 250000] >>

RankNames == { ranks[i].name : i \in 1..Len(ranks) }

\* ranks.findIndex(r => r.name === name) / ranks.indexOf(name): 0-based, -1 when absent
RankIndex(name) ==
  IF \E i \in 1..Len(ranks) : ranks[i].name = name
  THEN (CHOOSE i \in 1..Len(ranks) : ranks[i].name = name) - 1
  ELSE -1

\* function getRankByXP(xp): scan of the table, the last entry with xp >= r.xp wins
RECURSIVE RankScan(_, _, _)
RankScan(xp, i, rank) ==
  IF i > Len(ranks) THEN rank
  ELSE RankScan(xp, i + 1, IF xp >= ranks[i].xp THEN ranks[i].name ELSE rank)

getRankByXP(xp) == RankScan(xp, 1, "Street Rat")

\* a slip in the if-chain: the first comparison written <= instead of <
getRankOffByOne(xp) ==
  IF xp <= 100 THEN "Street Rat"
  ELSE IF xp < 300 THEN "Errand Boy"
  ELSE IF xp < 800 THEN "Associate"
  ELSE IF xp < 2000 THEN "Muscle"
  ELSE IF xp < 5000 THEN "Enforcer"
  ELSE IF xp < 15000 THEN "Caporegime"
  ELSE IF xp < 40000 THEN "Underboss"
  ELSE IF xp < 100000 THEN "Consigliere"
  ELSE IF xp < 250000 THEN "Boss"
  ELSE "Godfather"

\* function getRank(xp): the if-chain
getRank(xp) ==
  IF xp < 100 THEN "Street Rat"
  ELSE IF xp < 300 THEN "Errand Boy"
  ELSE IF xp < 800 THEN "Associate"
  ELSE IF xp < 2000 THEN "Muscle"
  ELSE IF xp < 5000 THEN "Enforcer"
  ELSE IF xp < 15000 THEN "Caporegime"
  ELSE IF xp < 40000 THEN "Underboss"
  ELSE IF xp < 100000 THEN "Consigliere"
  ELSE IF xp < 250000 THEN "Boss"
  ELSE "Godfather"

RECURSIVE Pow2(_)
Pow2(n) == IF n <= 0 THEN 1 ELSE 2 * Pow2(n - 1)

\* checkPrestige: requiredXp = 250000 * Math.pow(2, player.prestige)
requiredXp(prestige) == 250000 * Pow2(prestige)


(***************************************************************************)
(* Crime catalogs of the three builds that serve POST /crimes.  Success    *)
(* rates are kept per mille (0.8 = 800).                                   *)
(***************************************************************************)
FixedCrime(minRank, successXP, cashMin, cashMax, jailMinutes) ==
  [minRank |-> minRank, successXP |-> successXP, cashMin |-> cashMin,
   cashMax |-> cashMax, jailMinutes |-> jailMinutes]

crimeTypesFixed ==
  [t \in {"pickpocket", "shoplift", "vandalism", "car_theft", "smuggling", "kidnap",
          "blackmail", "drug_deal", "hijack_truck", "rob_bank", "arms_deal",
          "political_hit", "legendary_heist"} |->
     CASE t = "pickpocket"      -> FixedCrime("Street Rat", 5, 10, 50, 1)
       [] t = "shoplift"        -> FixedCrime("Errand Boy", 10, 20, 100, 2)
       [] t = "vandalism"       -> FixedCrime("Associate", 15, 50, 200, 3)
       [] t = "car_theft"       -> FixedCrime("Muscle", 25, 200, 800, 5)
       [] t = "smuggling"       -> FixedCrime("Enforcer", 40, 500, 1500, 10)
       [] t = "kidnap"          -> FixedCrime("Caporegime", 60, 1000, 2500, 15)
       [] t = "blackmail"       -> FixedCrime("Caporegime", 70, 1200, 3000, 15)
       [] t = "drug_deal"       -> FixedCrime("Underboss", 90, 2000, 5000, 20)
       [] t = "hijack_truck"    -> FixedCrime("Underboss", 120, 3000, 7000, 20)
       [] t = "rob_bank"        -> FixedCrime("Consigliere", 200, 10000, 20000, 30)
       [] t = "arms_deal"       -> FixedCrime("Consigliere", 250, 12000, 25000, 30)
       [] t = "political_hit"   -> FixedCrime("Boss", 500, 25000, 50000, 60)
       [] t = "legendary_heist" -> FixedCrime("Godfather", 1000, 50000, 100000, 120)]

PrestigeCrime(minRank, xp, cashLo, cashHi, heat, jail, successRate) ==
  [minRank |-> minRank, xp |-> xp, cash |-> <<cashLo, cashHi>>, heat |-> heat,
   jail |-> jail, successRate |-> successRate]

crimeTypesPrestige ==
  [t \in {"pickpocket", "shoplift", "vandalism", "car_theft", "smuggling", "kidnap",
          "blackmail", "drug_deal", "hijack_truck", "rob_bank", "arms_deal",
          "political_hit", "legendary_heist"} |->
     CASE t = "pickpocket"      -> PrestigeCrime("Street Rat", 5, 20, 50, 1, 30, 800)
       [] t = "shoplift"        -> PrestigeCrime("Errand Boy", 8, 50, 120, 2, 60, 750)
       [] t = "vandalism"       -> PrestigeCrime("Associate", 10, 80, 150, 3, 120, 700)
       [] t = "car_theft"       -> PrestigeCrime("Muscle", 20, 300, 1000, 4, 300, 550)
       [] t = "smuggling"       -> PrestigeCrime("Enforcer", 25, 500, 1500, 5, 600, 600)
       [] t = "kidnap"          -> PrestigeCrime("Caporegime", 50, 2000, 5000, 8, 1200, 400)
       [] t = "blackmail"       -> PrestigeCrime("Caporegime", 40, 1500, 4000, 7, 900, 450)
       [] t = "drug_deal"       -> PrestigeCrime("Underboss", 60, 3000, 7000, 10, 1800, 500)
       [] t = "hijack_truck"    -> PrestigeCrime("Underboss", 90, 6000, 12000, 12, 2700, 300)
       [] t = "rob_bank"        -> PrestigeCrime("Consigliere", 120, 10000, 25000, 15, 3600, 200)
       [] t = "arms_deal"       -> PrestigeCrime("Consigliere", 150, 10000, 30000, 20, 7200, 250)
       [] t = "political_hit"   -> PrestigeCrime("Boss", 200, 50000, 100000, 25, 10800, 100)
       [] t = "legendary_heist" -> PrestigeCrime("Godfather", 500, 200000, 500000, 50, 21600, 50)]

ServiceCrime(cash, respect, heat, jail, successRate) ==
  [cash |-> cash, respect |-> respect, heat |-> heat, jail |-> jail,
   successRate |-> successRate]

crimeTypesService ==
  [t \in {"hit", "smuggling", "bribe"} |->
     CASE t = "hit"       -> ServiceCrime(-200, 5, 3, 300, 700)
       [] t = "smuggling" -> ServiceCrime(500, 2, 4, 180, 600)
       [] t = "bribe"     -> ServiceCrime(-300, 0, -5, 120, 900)]

\* POST /jobs: the switch over the job type (cashChange, respectChange, heatChange)
jobEffects ==
  [t \in {"hit", "smuggling", "bribe"} |->
     CASE t = "hit"       -> [cashChange |-> -200, respectChange |-> 5, heatChange |-> 3]
       [] t = "smuggling" -> [cashChange |-> 500, respectChange |-> 2, heatChange |-> 4]
       [] t = "bribe"     -> [cashChange |-> -300, respectChange |-> 0, heatChange |-> -5]]

(***************************************************************************)
(* Math.random(): a draw is the numerator u of u / RandDen, in [0, 1).     *)
(***************************************************************************)
SuccessDraws == {0, RandDen \div 2, RandDen - 1}

\* the draws of POST /prison/bust: on both sides of 0.2, 0.35 and 0.6
BustDraws == {0, 199, 200, 349, 350, 599, 600, RandDen - 1}

RewardDraws == {0, RandDen - 1}

\* Math.random() < num / den
DrawBelow(u, num, den) == u * den < num * RandDen

\* Math.floor(Math.random() * (hi - lo + 1)) + lo
RandomCash(u, lo, hi) == ((u * (hi - lo + 1)) \div RandDen) + lo

\* Math.max(0, x) / GREATEST(0, x)
Greatest0(x) == IF x > 0 THEN x ELSE 0

\* Math.ceil(diff / 60000) with diff in seconds here
CeilMinutes(diff) == (diff + 59) \div 60

(***************************************************************************)
(* Records.                                                                *)
(***************************************************************************)
\* a row of table players (the columns of CREATE TABLE players and their defaults)
NewPlayer ==
  [cash |-> 1000, respect |-> 0, heat |-> 0, in_prison_until |-> NULL,
   xp |-> 0, rank |-> "Street Rat", prestige |-> 0]

\* the variable parts of a response / job result text
Msg(text, cash, xp, rank, prestige, jail) ==
  [text |-> text, cash |-> cash, xp |-> xp, rank |-> rank, prestige |-> prestige,
   jail |-> jail]

ErrorMsg(text) == Msg(text, NULL, NULL, NoRank, NULL, NULL)

\* a row of table jobs
JobRow(type, player_id, result, xp_at_time, rank_at_time, prestige_at_time, prison_start, prison_end) ==
  [type |-> type, player_id |-> player_id, result |-> result,
   xp_at_time |-> xp_at_time, rank_at_time |-> rank_at_time,
   prestige_at_time |-> prestige_at_time,
   prison_start |-> prison_start, prison_end |-> prison_end]

\* the request just served and its response
Served(op, actor, type, target, status, outcome, msg) ==
  [op |-> op, actor |-> actor, type |-> type, target |-> target,
   status |-> status, outcome |-> outcome, msg |-> msg]

NoRequest == Served("none", 0, "", 0, 0, "none", ErrorMsg(""))

\* the prison gate with the comparison turned around
InPrisonNever(player, t) == player.in_prison_until # NULL /\ player.in_prison_until < t

\* player.in_prison_until && new Date(player.in_prison_until) > new Date()
InPrison(player, t) == player.in_prison_until # NULL /\ player.in_prison_until > t

\* the rank gate off by one rank
RankTooLowSlack(playerRank, minRank) == RankIndex(playerRank) + 1 < RankIndex(minRank)

\* playerRankIndex < crimeRankIndex
RankTooLow(playerRank, minRank) == RankIndex(playerRank) < RankIndex(minRank)

(***************************************************************************)
(* Accounts.  A username is a sequence of characters; a users row is       *)
(* [username, role], its id is its position in the table (SERIAL); the     *)
(* players row of the same position in owner carries user_id and name.     *)
(***************************************************************************)
\* usernames as typed into the register form; the empty one is a missing field
RawNames == { << >>, <<"A", "l">>, <<"a", "l", " ">>, <<"b", "o">> }

\* the handlers of POST /auth/register that can be running at the same time
RegSlots == {1, 2}

RECURSIVE TrimLeft(_)
TrimLeft(s) == IF s # << >> /\ Head(s) = " " THEN TrimLeft(Tail(s)) ELSE s

RECURSIVE TrimRight(_)
TrimRight(s) ==
  IF s # << >> /\ s[Len(s)] = " " THEN TrimRight(SubSeq(s, 1, Len(s) - 1)) ELSE s

\* String.prototype.trim
trim(s) == TrimRight(TrimLeft(s))

LowerChar(c) == CASE c = "A" -> "a" [] c = "B" -> "b" [] c = "L" -> "l"
                  [] c = "O" -> "o" [] OTHER -> c

\* String.prototype.toLowerCase
toLowerCase(s) == [i \in 1..Len(s) |-> LowerChar(s[i])]

UserRow(username, role) == [username |-> username, role |-> role]

\* INSERT INTO players (user_id, name): the two columns that are not defaults
PlayerOf(user_id, name) == [user_id |-> user_id, name |-> name]

\* a request of POST /auth/register: where it stands, and its local constants
RegState(pc, username, name, role, uid) ==
  [pc |-> pc, username |-> username, name |-> name, role |-> role, uid |-> uid]

IdleReg == RegState("idle", << >>, << >>, "", NULL)

\* the accounts behind the player rows of a game snapshot: the first is the admin
Registered == << UserRow(<<"a", "l">>, "admin"), UserRow(<<"b", "o">>, "user") >>

(***************************************************************************)
(* Requests of one player in flight at the same time.  A handler awaits    *)
(* one query after the other; between two of them the handler of another   *)
(* request of the same player can run.                                     *)
(***************************************************************************)
\* the handlers of POST /crimes and POST /prison/bail that can be running at once
RaceSlots == {1, 2}

\* a request in flight: where it stands, the row it read, its draws, and what
\* its message names so far
ReqState(pc, op, type, player, success, cash, ranked, prestiged) ==
  [pc |-> pc, op |-> op, type |-> type, player |-> player, success |-> success,
   cash |-> cash, ranked |-> ranked, prestiged |-> prestiged]

IdleReq == ReqState("idle", "", "", NewPlayer, FALSE, NULL, NoRank, NULL)

(***************************************************************************)
(* Starting snapshots.  A behaviour starts from a database the build can   *)
(* have produced: a freshly registered player, or a player whose history   *)
(* is a run of minimum-reward pickpocket successes (each 5 xp; cash +10 in *)
(* "fixed", cash +20 and heat +1 in "prestige"), nobody in prison.  jobs   *)
(* holds the rows appended since the snapshot.                             *)
(***************************************************************************)
Veteran(xp, rank, prestige, cash, heat) ==
  [NewPlayer EXCEPT !.xp = xp, !.rank = rank, !.prestige = prestige,
                    !.cash = cash, !.heat = heat]

\* a player who never succeeded and paid ten bails of 100 after failed pickpockets
Broke == [NewPlayer EXCEPT !.cash = 0]

StartProfiles(b) ==
  CASE b = "fixed" ->
         { NewPlayer,
           Veteran(95, "Street Rat", 0, 1190, 0),
           Veteran(249800, "Boss", 0, 500600, 0),
           Veteran(800, "Muscle", 0, 2600, 0),
           Veteran(250300, "Godfather", 0, 525600, 0),
           Broke }
    [] b = "prestige" ->
         { NewPlayer,
           Veteran(95, "Street Rat", 0, 1380, 19),
           Veteran(249800, "Boss", 0, 1000200, 49960),
           Veteran(499500, "Godfather", 1, 2999020, 149901) }
    [] OTHER -> { NewPlayer }

CrimeInputs(b) ==
  CASE b \in {"fixed", "prestige"} ->
         {"pickpocket", "car_theft", "political_hit", "legendary_heist", "bogus"}
    [] OTHER -> {"hit", "smuggling", "bribe", "bogus"}

Init ==
  /\ build \in Builds
  /\ players \in [PlayerIds -> StartProfiles(build)]
  /\ \A p \in PlayerIds : p > 1 => players[p] = NewPlayer
  /\ jobs = << >>
  /\ now = 0
  /\ nreq = 0
  /\ last = NoRequest
  /\ probe = [xp |-> 0, chain |-> getRank(0), table |-> getRankByXP(0)]
  /\ roll = NULL
  /\ users = Registered
  /\ owner = [p \in PlayerIds |-> PlayerOf(p, Registered[p].username)]
  /\ regs = [r \in RegSlots |-> IdleReg]
  /\ reqs = [r \in RaceSlots |-> IdleReq]

\* every handler ends by answering; a rejected request writes nothing
Reject(op, actor, type, target, status, outcome, text) ==
  /\ last' = Served(op, actor, type, target, status, outcome, ErrorMsg(text))
  /\ UNCHANGED <<players, jobs>>

(***************************************************************************)
(* Build "fixed": POST /crimes.                                            *)
(***************************************************************************)
\* if (newRank === "Godfather" && player.rank === "Godfather")
PrestigeBranchFixed(newRank, playerRank) ==
  newRank = "Godfather" /\ playerRank = "Godfather"

\* UPDATE players SET prestige = prestige + 1, xp = 0 WHERE id = $1
UpdatePrestigeFixed(tbl, id) ==
  [tbl EXCEPT ![id].prestige = @ + 1, ![id].xp = 0]

\* UPDATE players SET cash = cash + $1, xp = xp + $2, rank = $3 WHERE id = $4
UpdateCashXpRank(tbl, id, cash, xp, rank) ==
  [tbl EXCEPT ![id].cash = @ + cash, ![id].xp = @ + xp, ![id].rank = rank]

\* UPDATE players SET in_prison_until = $1 WHERE id = $2
UpdatePrison(tbl, id, until) ==
  [tbl EXCEPT ![id].in_prison_until = until]

CrimeFixed(uid, type, u1, u2) ==
  /\ build = "fixed"
  /\ nreq < MaxRequests
  /\ nreq' = nreq + 1
  /\ UNCHANGED <<build, now, probe, accounts, reqs>>
  /\ roll' = NULL
  /\ IF type \notin DOMAIN crimeTypesFixed
     THEN Reject("crime", uid, type, 0, 400, "invalid", "Invalid crime")
     ELSE
       LET crime == crimeTypesFixed[type]
           player == players[uid]
       IN
       IF InPrison(player, now)
       THEN Reject("crime", uid, type, 0, 403, "prison", "You are in prison")
       ELSE IF RankTooLow(player.rank, crime.minRank)
       THEN Reject("crime", uid, type, 0, 403, "rank", "You need to be at least")
       ELSE IF DrawBelow(u1, 6, 10)
       THEN
         LET cashEarned == RandomCash(u2, crime.cashMin, crime.cashMax)
             newXP == player.xp + crime.successXP
             newRank == getRankByXP(newXP)
             prestiged == PrestigeBranchFixed(newRank, player.rank)
             message ==
               Msg("Success", cashEarned, crime.successXP,
                   IF newRank # player.rank THEN newRank ELSE NoRank,
                   IF prestiged THEN player.prestige + 1 ELSE NULL,
                   NULL)
         IN
         /\ players' = IF prestiged
                       THEN UpdatePrestigeFixed(players, uid)
                       ELSE UpdateCashXpRank(players, uid, cashEarned,
                                             crime.successXP, newRank)
         /\ jobs' = Append(jobs, JobRow(type, uid, message, newXP, newRank,
                                        player.prestige, NULL, NULL))
         /\ last' = Served("crime", uid, type, 0, 200, "success", message)
       ELSE
         LET jailUntil == now + crime.jailMinutes * 60
             message == Msg("Failed", NULL, NULL, NoRank, NULL, crime.jailMinutes)
         IN
         /\ players' = UpdatePrison(players, uid, jailUntil)
         /\ jobs' = Append(jobs, JobRow(type, uid, message, NULL, NoRank, NULL,
                                        now, jailUntil))
         /\ last' = Served("crime", uid, type, 0, 200, "failure", message)

(***************************************************************************)
(* Build "prestige": POST /crimes with getRank and checkPrestige.          *)
(***************************************************************************)
\* UPDATE players SET cash = cash + $1, xp = xp + $2, heat = heat + $3 WHERE id = $4
UpdateCashXpHeat(tbl, id, cash, xp, heat) ==
  [tbl EXCEPT ![id].cash = @ + cash, ![id].xp = @ + xp, ![id].heat = @ + heat]

\* UPDATE players SET rank = $1 WHERE id = $2
UpdateRank(tbl, id, rank) == [tbl EXCEPT ![id].rank = rank]

\* checkPrestige(player): the test on the row handed in
PrestigeDue(player) ==
  player.rank = "Godfather" /\ player.xp >= requiredXp(player.prestige)

\* the reset of the rollover without the prestige increment
UpdatePrestigeResetOnly(tbl, id) == [tbl EXCEPT ![id].xp = 0, ![id].rank = "Street Rat"]

\* UPDATE players SET xp = 0, rank = 'Street Rat', prestige = prestige + 1 WHERE id = $1
UpdatePrestige(tbl, id) ==
  [tbl EXCEPT ![id].xp = 0, ![id].rank = "Street Rat", ![id].prestige = @ + 1]

\* Math.random() < crime.successRate * (1 + player.prestige * 0.05)
SuccessPrestige(u, successRate, prestige) ==
  u * 100000 < RandDen * successRate * (100 + 5 * prestige)

CrimePrestige(uid, type, u1, u2) ==
  /\ build = "prestige"
  /\ nreq < MaxRequests
  /\ nreq' = nreq + 1
  /\ UNCHANGED <<build, now, probe, accounts, reqs>>
  /\ roll' = NULL
  /\ IF type \notin DOMAIN crimeTypesPrestige
     THEN Reject("crime", uid, type, 0, 400, "invalid", "Invalid crime type")
     ELSE
       LET crime == crimeTypesPrestige[type]
           player == players[uid]
       IN
       IF RankTooLow(getRank(player.xp), crime.minRank)
       THEN Reject("crime", uid, type, 0, 403, "rank", "You must be at least")
       ELSE IF InPrison(player, now)
       THEN Reject("crime", uid, type, 0, 403, "prison", "You are in prison")
       ELSE
         LET success == SuccessPrestige(u1, crime.successRate, player.prestige)
             reward == RandomCash(u2, crime.cash[1], crime.cash[2])
             jailUntil == now + crime.jail
             \* the table after the success or failure UPDATE
             t1 == IF success
                   THEN UpdateCashXpHeat(players, uid, reward, crime.xp, crime.heat)
                   ELSE UpdatePrison(players, uid, jailUntil)
             \* const updated = SELECT * FROM players; player = updated.rows[0]
             reread == t1[uid]
             newRank == getRank(reread.xp)
             ranked == newRank # reread.rank
             t2 == IF ranked THEN UpdateRank(t1, uid, newRank) ELSE t1
             \* checkPrestige(player) gets the row read before the rank UPDATE
             prestiged == PrestigeDue(reread)
             t3 == IF prestiged THEN UpdatePrestige(t2, uid) ELSE t2
             resultMessage ==
               Msg(IF success THEN "Success" ELSE "Failed",
                   IF success THEN reward ELSE NULL,
                   IF success THEN crime.xp ELSE NULL,
                   IF ranked THEN newRank ELSE NoRank,
                   IF prestiged THEN reread.prestige + 1 ELSE NULL,
                   IF success THEN NULL ELSE crime.jail)
         IN
         /\ players' = t3
         /\ jobs' = Append(jobs, JobRow(type, uid, resultMessage, NULL, NoRank, NULL,
                                        NULL, NULL))
         /\ last' = Served("crime", uid, type, 0, 200,
                           IF success THEN "success" ELSE "failure", resultMessage)

(***************************************************************************)
(* Build "service": POST /crimes of src/node-service/app.js.               *)
(***************************************************************************)
\* UPDATE players SET cash = cash + $1, respect = respect + $2, heat = heat + $3
UpdateCashRespectHeat(tbl, id, cash, respect, heat) ==
  [tbl EXCEPT ![id].cash = @ + cash, ![id].respect = @ + respect,
              ![id].heat = @ + heat]

CrimeService(uid, type, u1) ==
  /\ build = "service"
  /\ nreq < MaxRequests
  /\ nreq' = nreq + 1
  /\ UNCHANGED <<build, now, probe, accounts, reqs>>
  /\ roll' = NULL
  /\ IF type \notin DOMAIN crimeTypesService
     THEN Reject("crime", uid, type, 0, 400, "invalid", "Invalid crime type")
     ELSE
       LET crime == crimeTypesService[type]
           player == players[uid]
       IN
       IF InPrison(player, now)
       THEN Reject("crime", uid, type, 0, 403, "prison", "You are in prison")
       ELSE IF DrawBelow(u1, crime.successRate, 1000)
       THEN
         LET resultMessage == Msg("Success", NULL, NULL, NoRank, NULL, NULL) IN
         /\ players' = UpdateCashRespectHeat(players, uid, crime.cash, crime.respect,
                                             crime.heat)
         /\ jobs' = Append(jobs, JobRow(type, uid, resultMessage, NULL, NoRank, NULL,
                                        NULL, NULL))
         /\ last' = Served("crime", uid, type, 0, 200, "success", resultMessage)
       ELSE
         LET jailUntil == now + crime.jail
             resultMessage == Msg("Failed", NULL, NULL, NoRank, NULL, crime.jail)
         IN
         /\ players' = UpdatePrison(players, uid, jailUntil)
         /\ jobs' = Append(jobs, JobRow(type, uid, resultMessage, NULL, NoRank, NULL,
                                        NULL, NULL))
         /\ last' = Served("crime", uid, type, 0, 200, "failure", resultMessage)

(***************************************************************************)
(* Build "jobs": POST /jobs (no authentication, the player id is in the    *)
(* request body).                                                          *)
(***************************************************************************)
\* UPDATE players SET cash = cash + $1, respect = respect + $2,
\*                    heat = GREATEST(0, heat + $3) WHERE id = $4
UpdateJobStats(tbl, id, cash, respect, heat) ==
  [tbl EXCEPT ![id].cash = @ + cash, ![id].respect = @ + respect,
              ![id].heat = Greatest0(@ + heat)]

PostJob(playerId, type) ==
  /\ build = "jobs"
  /\ nreq < MaxRequests
  /\ nreq' = nreq + 1
  /\ UNCHANGED <<build, now, probe, accounts, reqs>>
  /\ roll' = NULL
  /\ IF playerId \notin DOMAIN players
     THEN Reject("job", playerId, type, 0, 404, "notfound", "Player not found")
     ELSE IF type \notin DOMAIN jobEffects
     THEN Reject("job", playerId, type, 0, 400, "invalid", "Unknown job type")
     ELSE
       LET e == jobEffects[type]
           result == Msg(type, e.cashChange, NULL, NoRank, NULL, NULL)
       IN
       /\ players' = UpdateJobStats(players, playerId, e.cashChange, e.respectChange,
                                    e.heatChange)
       /\ jobs' = Append(jobs, JobRow(type, playerId, result, NULL, NoRank, NULL,
                                      NULL, NULL))
       /\ last' = Served("job", playerId, type, 0, 200, "success", result)

(***************************************************************************)
(* Build "fixed": POST /prison/bail and POST /prison/bust (the same code   *)
(* stands in src/app.js).                                                  *)
(***************************************************************************)
\* minutesLeft = Math.ceil(diff / 60000), rounded the wrong way
BailCostFloor(until, t) == ((until - t) \div 60) * 100

\* diff = in_prison_until - Date.now(); bailCost = Math.ceil(diff / 60000) * 100
BailCost(until, t) == CeilMinutes(until - t) * 100

\* UPDATE players SET cash = cash - $1, in_prison_until = NULL WHERE id = $2
UpdateBail(tbl, id, bailCost) ==
  [tbl EXCEPT ![id].cash = @ - bailCost, ![id].in_prison_until = NULL]

\* the cash test letting through a player one hundred short
CannotAffordSlack(cash, bailCost) == cash + 100 < bailCost

\* if (player.cash < bailCost)
CannotAfford(cash, bailCost) == cash < bailCost

Bail(uid) ==
  /\ build = "fixed"
  /\ nreq < MaxRequests
  /\ nreq' = nreq + 1
  /\ UNCHANGED <<build, now, probe, accounts, reqs>>
  /\ roll' = NULL
  /\ LET player == players[uid] IN
     IF ~InPrison(player, now)
     THEN Reject("bail", uid, "", 0, 400, "free", "You are not in prison")
     ELSE
       LET bailCost == BailCost(player.in_prison_until, now) IN
       IF CannotAfford(player.cash, bailCost)
       THEN /\ last' = Served("bail", uid, "", 0, 400, "poor",
                              Msg("Bail costs", bailCost, NULL, NoRank, NULL, NULL))
            /\ UNCHANGED <<players, jobs>>
       ELSE
         LET message == Msg("paid bail", bailCost, NULL, NoRank, NULL, NULL) IN
         /\ players' = UpdateBail(players, uid, bailCost)
         /\ jobs' = Append(jobs, JobRow("bail", uid, message, NULL, NoRank, NULL,
                                        now, now))
         /\ last' = Served("bail", uid, "", 0, 200, "paid", message)

\* the chance without the rank bonus
BustSucceedsFlat(u, rank) == DrawBelow(u, 20, 100)

\* successChance = 0.2 + rankIndex * 0.05; Math.random() < successChance
BustSucceeds(u, rank) == DrawBelow(u, 20 + 5 * RankIndex(rank), 100)

\* the target test without the prison part
BustTargetMissingOnly(tbl, targetId, t) == targetId \notin DOMAIN tbl

\* if (!target || !target.in_prison_until || new Date(target.in_prison_until) <= new Date())
BustTargetRefused(tbl, targetId, t) ==
  targetId \notin DOMAIN tbl \/ ~InPrison(tbl[targetId], t)

\* the release written to the rescuer's row
BustReleaseRescuer(tbl, rescuerId, targetId) == UpdatePrison(tbl, rescuerId, NULL)

\* UPDATE players SET in_prison_until = NULL WHERE id = $1 [target.id]
BustRelease(tbl, rescuerId, targetId) == UpdatePrison(tbl, targetId, NULL)

\* the jailing written to the target's row
BustJailTarget(tbl, rescuerId, targetId, until) == UpdatePrison(tbl, targetId, until)

\* UPDATE players SET in_prison_until = $1 WHERE id = $2 [jailUntil, rescuer.id]
BustJail(tbl, rescuerId, targetId, until) == UpdatePrison(tbl, rescuerId, until)

Bust(uid, targetId, u) ==
  /\ build = "fixed"
  /\ nreq < MaxRequests
  /\ nreq' = nreq + 1
  /\ UNCHANGED <<build, now, probe, accounts, reqs>>
  /\ IF BustTargetRefused(players, targetId, now)
     THEN /\ Reject("bust", uid, "", targetId, 400, "free", "That player is not in prison")
          /\ roll' = NULL
     ELSE
       LET rescuer == players[uid] IN
       /\ roll' = u
       /\ IF BustSucceeds(u, rescuer.rank)
          THEN
            LET message == Msg("busted out", NULL, NULL, NoRank, NULL, NULL) IN
            /\ players' = BustRelease(players, uid, targetId)
            /\ jobs' = Append(jobs, JobRow("bust", uid, message, NULL, NoRank, NULL,
                                           now, now))
            /\ last' = Served("bust", uid, "", targetId, 200, "bust", message)
          ELSE
            LET jailUntil == now + 300
                message == Msg("failed to bust", NULL, NULL, NoRank, NULL, 5)
            IN
            /\ players' = BustJail(players, uid, targetId, jailUntil)
            /\ jobs' = Append(jobs, JobRow("bust_fail", uid, message, NULL, NoRank, NULL,
                                           now, jailUntil))
            /\ last' = Served("bust", uid, "", targetId, 200, "bust_fail", message)

(***************************************************************************)
(* The clock, and the rank lookups applied to a probe value.               *)
(***************************************************************************)
Tick ==
  /\ now + TickSeconds <= MaxTicks * TickSeconds
  /\ now' = now + TickSeconds
  /\ UNCHANGED <<build, players, jobs, nreq, last, probe, roll, accounts, reqs>>

TargetIds == PlayerIds \cup {3}

Next ==
  \/ \E uid \in PlayerIds, type \in CrimeInputs(build),
        u1 \in SuccessDraws, u2 \in RewardDraws : CrimeFixed(uid, type, u1, u2)
  \/ \E uid \in PlayerIds, type \in CrimeInputs(build),
        u1 \in SuccessDraws, u2 \in RewardDraws : CrimePrestige(uid, type, u1, u2)
  \/ \E uid \in PlayerIds, type \in CrimeInputs(build),
        u1 \in SuccessDraws : CrimeService(uid, type, u1)
  \/ \E playerId \in TargetIds, type \in CrimeInputs(build) : PostJob(playerId, type)
  \/ \E uid \in PlayerIds : Bail(uid)
  \/ \E uid \in PlayerIds, targetId \in TargetIds, u \in BustDraws :
        Bust(uid, targetId, u)
  \/ Tick

Spec == Init /\ [][Next]_vars

(***************************************************************************)
(* The rank lookups as pure functions: the probe walks over the values     *)
(* around every threshold of the ladder.                                   *)
(***************************************************************************)
ProbeValues ==
  { x \in UNION { (ranks[i].xp - ProbeDelta)..(ranks[i].xp + ProbeDelta) :
                  i \in 1..Len(ranks) } : x >= 0 }

Lookup(xp) == [xp |-> xp, chain |-> getRank(xp), table |-> getRankByXP(xp)]

InitRank ==
  /\ build = "fixed"
  /\ players = [p \in PlayerIds |-> NewPlayer]
  /\ jobs = << >>
  /\ now = 0
  /\ nreq = 0
  /\ last = NoRequest
  /\ probe = Lookup(0)
  /\ roll = NULL
  /\ users = Registered
  /\ owner = [p \in PlayerIds |-> PlayerOf(p, Registered[p].username)]
  /\ regs = [r \in RegSlots |-> IdleReg]
  /\ reqs = [r \in RaceSlots |-> IdleReq]

ProbeRank(xp) ==
  /\ probe' = Lookup(xp)
  /\ UNCHANGED <<build, players, jobs, now, nreq, last, roll, accounts, reqs>>

NextRank == \E xp \in ProbeValues : ProbeRank(xp)

SpecRank == InitRank /\ [][NextRank]_vars

(***************************************************************************)
(* POST /auth/register of build "fixed", query by query: the handler       *)
(* awaits three queries on the pool, outside any transaction, and other    *)
(* requests run between them.  A query may be rejected by the pool (ok =   *)
(* FALSE); every rejection inside the try block ends in the catch block.   *)
(***************************************************************************)
InitReg ==
  /\ build = "fixed"
  /\ players = << >>
  /\ jobs = << >>
  /\ now = 0
  /\ nreq = 0
  /\ last = NoRequest
  /\ probe = Lookup(0)
  /\ roll = NULL
  /\ users = << >>
  /\ owner = << >>
  /\ regs = [r \in RegSlots |-> IdleReg]
  /\ reqs = [r \in RaceSlots |-> IdleReq]

\* catch (err) { res.status(400).json({ error: "Username already exists" }) }
RegFail(r) ==
  /\ regs' = [regs EXCEPT ![r] = IdleReg]
  /\ last' = Served("register", r, "", 0, 400, "error", ErrorMsg("Username already exists"))

\* the request arrives: validation, normalisation, hashing
RegBegin(r, rawUsername, password) ==
  /\ regs[r].pc = "idle"
  /\ nreq < MaxRegs
  /\ nreq' = nreq + 1
  /\ IF rawUsername = << >> \/ ~password
     THEN /\ last' = Served("register", r, "", 0, 400, "required",
                            ErrorMsg("Username and password required"))
          /\ regs' = regs
     ELSE /\ regs' = [regs EXCEPT ![r] = RegState("count", toLowerCase(trim(rawUsername)),
                                                  trim(rawUsername), "", NULL)]
          /\ last' = last
  /\ UNCHANGED <<build, players, jobs, now, probe, roll, users, owner, reqs>>

\* SELECT COUNT(*) FROM users; role = count === 0 ? "admin" : "user"
RegCount(r, ok) ==
  /\ regs[r].pc = "count"
  /\ IF ok
     THEN /\ regs' = [regs EXCEPT ![r].pc = "insert_user",
                                  ![r].role = IF Len(users) = 0 THEN "admin" ELSE "user"]
          /\ last' = last
     ELSE RegFail(r)
  /\ UNCHANGED <<build, players, jobs, now, nreq, probe, roll, users, owner, reqs>>

UsernameTaken(tbl, username) == \E i \in 1..Len(tbl) : tbl[i].username = username

\* INSERT INTO users (username, password, role) ... RETURNING id; username is UNIQUE
RegInsertUser(r, ok) ==
  /\ regs[r].pc = "insert_user"
  /\ IF ok /\ ~UsernameTaken(users, regs[r].username)
     THEN /\ users' = Append(users, UserRow(regs[r].username, regs[r].role))
          /\ regs' = [regs EXCEPT ![r].pc = "insert_player", ![r].uid = Len(users) + 1]
          /\ last' = last
     ELSE /\ RegFail(r)
          /\ users' = users
  /\ UNCHANGED <<build, players, jobs, now, nreq, probe, roll, owner, reqs>>

\* INSERT INTO players (user_id, name) VALUES (user.id, rawUsername.trim()); res.json
RegInsertPlayer(r, ok) ==
  /\ regs[r].pc = "insert_player"
  /\ IF ok
     THEN /\ players' = Append(players, NewPlayer)
          /\ owner' = Append(owner, PlayerOf(regs[r].uid, regs[r].name))
          /\ regs' = [regs EXCEPT ![r] = IdleReg]
          /\ last' = Served("register", r, regs[r].role, regs[r].uid, 200, "registered",
                            Msg("Registered successfully", NULL, NULL, NoRank, NULL, NULL))
     ELSE /\ RegFail(r)
          /\ UNCHANGED <<players, owner>>
  /\ UNCHANGED <<build, jobs, now, nreq, probe, roll, users, reqs>>

NextReg ==
  \/ \E r \in RegSlots, rawUsername \in RawNames, password \in BOOLEAN :
        RegBegin(r, rawUsername, password)
  \/ \E r \in RegSlots, ok \in BOOLEAN : RegCount(r, ok)
  \/ \E r \in RegSlots, ok \in BOOLEAN : RegInsertUser(r, ok)
  \/ \E r \in RegSlots, ok \in BOOLEAN : RegInsertPlayer(r, ok)

SpecReg == InitReg /\ [][NextReg]_vars

(***************************************************************************)
(* POST /crimes and POST /prison/bail query by query, for requests of one  *)
(* player that are in flight together (builds "fixed" and "prestige").     *)
(* The synchronous code between two awaits belongs to the step of the      *)
(* query before it; the clock stands still.                                *)
(***************************************************************************)
\* the player all the requests in flight belong to
RaceActor == CHOOSE p \in PlayerIds : \A q \in PlayerIds : p <= q

\* a player with eighteen minimum-reward pickpockets behind them, and a player
\* left with 100 after nine failed pickpockets and nine bails of 100
NearlyBroke == [NewPlayer EXCEPT !.cash = 100]

RaceProfiles(b) ==
  IF b = "fixed"
  THEN { Veteran(90, "Street Rat", 0, 1180, 0), NearlyBroke }
  ELSE { Veteran(95, "Street Rat", 0, 1380, 19),
         Veteran(499500, "Godfather", 1, 2999020, 149901) }

RaceCrimes == {"pickpocket", "political_hit", "bogus"}

InitRace ==
  /\ build \in {"fixed", "prestige"}
  /\ players \in [PlayerIds -> RaceProfiles(build) \cup {NewPlayer}]
  /\ players[RaceActor] \in RaceProfiles(build)
  /\ \A p \in PlayerIds \ {RaceActor} : players[p] = NewPlayer
  /\ jobs = << >>
  /\ now = 0
  /\ nreq = 0
  /\ last = NoRequest
  /\ probe = Lookup(0)
  /\ roll = NULL
  /\ users = Registered
  /\ owner = [p \in PlayerIds |-> PlayerOf(p, Registered[p].username)]
  /\ regs = [r \in RegSlots |-> IdleReg]
  /\ reqs = [r \in RaceSlots |-> IdleReq]

\* part_001: SELECT the player, prison test, rank test, the two draws
RaceCrimeReadFixed(r, type, u1, u2) ==
  /\ build = "fixed"
  /\ reqs[r].pc = "idle"
  /\ nreq < MaxRaceReqs
  /\ nreq' = nreq + 1
  /\ UNCHANGED <<build, now, probe, roll, accounts>>
  /\ IF type \notin DOMAIN crimeTypesFixed
     THEN Reject("crime", RaceActor, type, 0, 400, "invalid", "Invalid crime") /\ reqs' = reqs
     ELSE
       LET crime == crimeTypesFixed[type]
           player == players[RaceActor]
       IN
       IF InPrison(player, now)
       THEN Reject("crime", RaceActor, type, 0, 403, "prison", "You are in prison")
            /\ reqs' = reqs
       ELSE IF RankTooLow(player.rank, crime.minRank)
       THEN Reject("crime", RaceActor, type, 0, 403, "rank", "You need to be at least")
            /\ reqs' = reqs
       ELSE /\ reqs' = [reqs EXCEPT ![r] =
                          ReqState("write", "crime", type, player, DrawBelow(u1, 6, 10),
                                   RandomCash(u2, crime.cashMin, crime.cashMax),
                                   NoRank, NULL)]
            /\ UNCHANGED <<players, jobs, last>>

\* part_002: SELECT the player, rank test, prison test, the two draws
RaceCrimeReadPrestige(r, type, u1, u2) ==
  /\ build = "prestige"
  /\ reqs[r].pc = "idle"
  /\ nreq < MaxRaceReqs
  /\ nreq' = nreq + 1
  /\ UNCHANGED <<build, now, probe, roll, accounts>>
  /\ IF type \notin DOMAIN crimeTypesPrestige
     THEN Reject("crime", RaceActor, type, 0, 400, "invalid", "Invalid crime type")
          /\ reqs' = reqs
     ELSE
       LET crime == crimeTypesPrestige[type]
           player == players[RaceActor]
       IN
       IF RankTooLow(getRank(player.xp), crime.minRank)
       THEN Reject("crime", RaceActor, type, 0, 403, "rank", "You must be at least")
            /\ reqs' = reqs
       ELSE IF InPrison(player, now)
       THEN Reject("crime", RaceActor, type, 0, 403, "prison", "You are in prison")
            /\ reqs' = reqs
       ELSE /\ reqs' = [reqs EXCEPT ![r] =
                          ReqState("write", "crime", type, player,
                                   SuccessPrestige(u1, crime.successRate, player.prestige),
                                   RandomCash(u2, crime.cash[1], crime.cash[2]),
                                   NoRank, NULL)]
            /\ UNCHANGED <<players, jobs, last>>

\* the success UPDATE computed from the row read at the start of the request
SuccessWriteFromRead(tbl, id, q) ==
  [tbl EXCEPT ![id].cash = q.player.cash + q.cash,
              ![id].xp = q.player.xp + crimeTypesFixed[q.type].successXP,
              ![id].rank = getRankByXP(q.player.xp + crimeTypesFixed[q.type].successXP)]

\* part_001:259-266: the prestige UPDATE, or the relative UPDATE with the rank
\* looked up from the xp read at the start
SuccessWriteFixed(tbl, id, q) ==
  LET crime == crimeTypesFixed[q.type]
      newRank == getRankByXP(q.player.xp + crime.successXP)
  IN IF PrestigeBranchFixed(newRank, q.player.rank)
     THEN UpdatePrestigeFixed(tbl, id)
     ELSE UpdateCashXpRank(tbl, id, q.cash, crime.successXP, newRank)

RaceCrimeWriteFixed(r) ==
  /\ build = "fixed"
  /\ reqs[r].pc = "write"
  /\ reqs[r].op = "crime"
  /\ LET q == reqs[r]
         crime == crimeTypesFixed[q.type]
         newRank == getRankByXP(q.player.xp + crime.successXP)
     IN IF q.success
        THEN /\ players' = SuccessWriteFixed(players, RaceActor, q)
             /\ reqs' = [reqs EXCEPT
                  ![r].pc = "log",
                  ![r].ranked = IF newRank # q.player.rank THEN newRank ELSE NoRank,
                  ![r].prestiged = IF PrestigeBranchFixed(newRank, q.player.rank)
                                   THEN q.player.prestige + 1 ELSE NULL]
        ELSE /\ players' = UpdatePrison(players, RaceActor, now + crime.jailMinutes * 60)
             /\ reqs' = [reqs EXCEPT ![r].pc = "log"]
  /\ UNCHANGED <<build, jobs, now, nreq, last, probe, roll, accounts>>

\* part_002:232-242: the relative UPDATE, or the prison UPDATE
RaceCrimeWritePrestige(r) ==
  /\ build = "prestige"
  /\ reqs[r].pc = "write"
  /\ reqs[r].op = "crime"
  /\ LET q == reqs[r]
         crime == crimeTypesPrestige[q.type]
     IN players' = IF q.success
                   THEN UpdateCashXpHeat(players, RaceActor, q.cash, crime.xp, crime.heat)
                   ELSE UpdatePrison(players, RaceActor, now + crime.jail)
  /\ reqs' = [reqs EXCEPT ![r].pc = "reread"]
  /\ UNCHANGED <<build, jobs, now, nreq, last, probe, roll, accounts>>

\* part_002:245-246: const updated = SELECT * FROM players; player = updated.rows[0]
RaceCrimeReread(r) ==
  /\ reqs[r].pc = "reread"
  /\ reqs' = [reqs EXCEPT ![r].pc = "rank", ![r].player = players[RaceActor]]
  /\ UNCHANGED <<build, players, jobs, now, nreq, last, probe, roll, accounts>>

\* part_002:247-251: newRank = getRank(player.xp); UPDATE rank when it differs
RaceCrimeRank(r) ==
  /\ reqs[r].pc = "rank"
  /\ LET q == reqs[r]
         newRank == getRank(q.player.xp)
     IN IF newRank # q.player.rank
        THEN /\ players' = UpdateRank(players, RaceActor, newRank)
             /\ reqs' = [reqs EXCEPT ![r].pc = "prestige", ![r].ranked = newRank]
        ELSE /\ players' = players
             /\ reqs' = [reqs EXCEPT ![r].pc = "prestige"]
  /\ UNCHANGED <<build, jobs, now, nreq, last, probe, roll, accounts>>

\* part_002:253-256: checkPrestige(player) on the row of the re-read
RaceCrimePrestige(r) ==
  /\ reqs[r].pc = "prestige"
  /\ LET q == reqs[r] IN
     IF PrestigeDue(q.player)
     THEN /\ players' = UpdatePrestige(players, RaceActor)
          /\ reqs' = [reqs EXCEPT ![r].pc = "log", ![r].prestiged = q.player.prestige + 1]
     ELSE /\ players' = players
          /\ reqs' = [reqs EXCEPT ![r].pc = "log"]
  /\ UNCHANGED <<build, jobs, now, nreq, last, probe, roll, accounts>>

\* INSERT INTO jobs; res.json({ message })
RaceCrimeLog(r) ==
  /\ reqs[r].pc = "log"
  /\ reqs[r].op = "crime"
  /\ LET q == reqs[r]
         fixed == build = "fixed"
         xp == IF fixed THEN crimeTypesFixed[q.type].successXP
               ELSE crimeTypesPrestige[q.type].xp
         jail == IF fixed THEN crimeTypesFixed[q.type].jailMinutes
                 ELSE crimeTypesPrestige[q.type].jail
         jailUntil == IF fixed THEN now + jail * 60 ELSE now + jail
         message == Msg(IF q.success THEN "Success" ELSE "Failed",
                        IF q.success THEN q.cash ELSE NULL,
                        IF q.success THEN xp ELSE NULL,
                        q.ranked, q.prestiged,
                        IF q.success THEN NULL ELSE jail)
         row == IF ~fixed
                THEN JobRow(q.type, RaceActor, message, NULL, NoRank, NULL, NULL, NULL)
                ELSE IF q.success
                THEN JobRow(q.type, RaceActor, message, q.player.xp + xp,
                            getRankByXP(q.player.xp + xp), q.player.prestige, NULL, NULL)
                ELSE JobRow(q.type, RaceActor, message, NULL, NoRank, NULL, now, jailUntil)
     IN /\ jobs' = Append(jobs, row)
        /\ last' = Served("crime", RaceActor, q.type, 0, 200,
                          IF q.success THEN "success" ELSE "failure", message)
  /\ reqs' = [reqs EXCEPT ![r] = IdleReq]
  /\ UNCHANGED <<build, players, now, nreq, probe, roll, accounts>>

\* part_001:293-305: SELECT the player, prison test, bail cost, cash test
RaceBailRead(r) ==
  /\ build = "fixed"
  /\ reqs[r].pc = "idle"
  /\ nreq < MaxRaceReqs
  /\ nreq' = nreq + 1
  /\ UNCHANGED <<build, now, probe, roll, accounts>>
  /\ LET player == players[RaceActor] IN
     IF ~InPrison(player, now)
     THEN Reject("bail", RaceActor, "", 0, 400, "free", "You are not in prison")
          /\ reqs' = reqs
     ELSE
       LET bailCost == BailCost(player.in_prison_until, now) IN
       IF CannotAfford(player.cash, bailCost)
       THEN /\ last' = Served("bail", RaceActor, "", 0, 400, "poor",
                              Msg("Bail costs", bailCost, NULL, NoRank, NULL, NULL))
            /\ UNCHANGED <<players, jobs, reqs>>
       ELSE /\ reqs' = [reqs EXCEPT ![r] =
                          ReqState("write", "bail", "", player, TRUE, bailCost, NoRank, NULL)]
            /\ UNCHANGED <<players, jobs, last>>

\* part_001:307: UPDATE players SET cash = cash - $1, in_prison_until = NULL
RaceBailWrite(r) ==
  /\ reqs[r].pc = "write"
  /\ reqs[r].op = "bail"
  /\ players' = UpdateBail(players, RaceActor, reqs[r].cash)
  /\ reqs' = [reqs EXCEPT ![r].pc = "log"]
  /\ UNCHANGED <<build, jobs, now, nreq, last, probe, roll, accounts>>

\* part_001:309-314: INSERT INTO jobs (bail); res.json
RaceBailLog(r) ==
  /\ reqs[r].pc = "log"
  /\ reqs[r].op = "bail"
  /\ LET message == Msg("paid bail", reqs[r].cash, NULL, NoRank, NULL, NULL) IN
     /\ jobs' = Append(jobs, JobRow("bail", RaceActor, message, NULL, NoRank, NULL, now, now))
     /\ last' = Served("bail", RaceActor, "", 0, 200, "paid", message)
  /\ reqs' = [reqs EXCEPT ![r] = IdleReq]
  /\ UNCHANGED <<build, players, now, nreq, probe, roll, accounts>>

NextRace ==
  \/ \E r \in RaceSlots, type \in RaceCrimes, u1 \in SuccessDraws, u2 \in RewardDraws :
        RaceCrimeReadFixed(r, type, u1, u2)
  \/ \E r \in RaceSlots, type \in RaceCrimes, u1 \in SuccessDraws, u2 \in RewardDraws :
        RaceCrimeReadPrestige(r, type, u1, u2)
  \/ \E r \in RaceSlots : RaceCrimeWriteFixed(r)
  \/ \E r \in RaceSlots : RaceCrimeWritePrestige(r)
  \/ \E r \in RaceSlots : RaceCrimeReread(r)
  \/ \E r \in RaceSlots : RaceCrimeRank(r)
  \/ \E r \in RaceSlots : RaceCrimePrestige(r)
  \/ \E r \in RaceSlots : RaceCrimeLog(r)
  \/ \E r \in RaceSlots : RaceBailRead(r)
  \/ \E r \in RaceSlots : RaceBailWrite(r)
  \/ \E r \in RaceSlots : RaceBailLog(r)

SpecRace == InitRace /\ [][NextRace]_vars

(***************************************************************************)
(* Vocabulary of the properties.                                           *)
(***************************************************************************)
\* the rank ladder as the specification states it
Ladder ==
  { <<"Street Rat", 0>>, <<"Errand Boy", 100>>, <<"Associate", 300>>,
    <<"Muscle", 800>>, <<"Enforcer", 2000>>, <<"Caporegime", 5000>>,
    <<"Underboss", 15000>>, <<"Consigliere", 40000>>, <<"Boss", 100000>>,
    <<"Godfather", 250000>> }

\* the entries whose threshold is the greatest one <= xp
TopEntries(xp) ==
  { e \in Ladder : e[2] <= xp /\ \A f \in Ladder : f[2] <= xp => f[2] <= e[2] }

RankAt(xp) == (CHOOSE e \in TopEntries(xp) : TRUE)[1]

LadderIndex(name) == Cardinality({ e \in Ladder : e[2] < (CHOOSE f \in Ladder : f[1] = name)[2] })

Incarcerated(p) == players[p].in_prison_until # NULL /\ players[p].in_prison_until > now

\* a step that serves one request
Serves(op) == nreq' = nreq + 1 /\ last'.op = op

RankedBuild == build \in {"fixed", "prestige"}

Catalogued(type) ==
  IF build = "service" THEN type \in DOMAIN crimeTypesService
  ELSE type \in DOMAIN crimeTypesFixed

UnlockRank(type) ==
  IF build = "fixed" THEN crimeTypesFixed[type].minRank
  ELSE crimeTypesPrestige[type].minRank

CrimeXp(type) ==
  IF build = "fixed" THEN crimeTypesFixed[type].successXP
  ELSE crimeTypesPrestige[type].xp

CashRange(type) ==
  IF build = "fixed"
  THEN crimeTypesFixed[type].cashMin .. crimeTypesFixed[type].cashMax
  ELSE crimeTypesPrestige[type].cash[1] .. crimeTypesPrestige[type].cash[2]

\* the configured jail duration, in seconds
JailSeconds(type) ==
  CASE build = "fixed" -> crimeTypesFixed[type].jailMinutes * 60
    [] build = "prestige" -> crimeTypesPrestige[type].jail
    [] OTHER -> crimeTypesService[type].jail

HeatDelta(type) ==
  CASE build = "prestige" -> crimeTypesPrestige[type].heat
    [] build = "service" -> crimeTypesService[type].heat
    [] build = "jobs" -> jobEffects[type].heatChange
    [] OTHER -> 0

Max0(x) == IF x < 0 THEN 0 ELSE x

(***************************************************************************)
(* C1.  For every experience value xp >= 0 both rank lookups, the if-chain *)
(* getRank and the table scan getRankByXP, return the one rank of the      *)
(* ladder whose threshold is the greatest one <= xp; so they agree.        *)
(***************************************************************************)
C1_RankLookup ==
  /\ probe.xp >= 0
  /\ Cardinality(TopEntries(probe.xp)) = 1
  /\ probe.chain = RankAt(probe.xp)
  /\ probe.table = RankAt(probe.xp)
  /\ probe.chain = probe.table

C1_Witness ==
  /\ probe.xp = 249999
  /\ probe.chain = "Boss"
  /\ probe.table = "Boss"

(***************************************************************************)
(* C2.  After every completed request the stored rank of every player is   *)
(* the ladder lookup of that player's stored experience.                   *)
(***************************************************************************)
C2_RankDerivedFromXp ==
  \A p \in PlayerIds : players[p].rank = RankAt(players[p].xp)

(***************************************************************************)
(* C3.  A successful crime that leaves the player at Godfather with        *)
(* experience >= 250000 * 2^prestige ends with experience 0, rank          *)
(* Street Rat and prestige one higher.                                     *)
(***************************************************************************)
C3_PrestigeRollover ==
  [][ (Serves("crime") /\ RankedBuild /\ last'.outcome = "success")
      => LET a == last'.actor
             xpAfter == players[a].xp + CrimeXp(last'.type)
         IN (RankAt(xpAfter) = "Godfather"
             /\ xpAfter >= 250000 * Pow2(players[a].prestige))
            => /\ players'[a].xp = 0
               /\ players'[a].rank = "Street Rat"
               /\ players'[a].prestige = players[a].prestige + 1 ]_vars

(***************************************************************************)
(* C4.  Prestige changes only in a crime attempt of that player whose draw *)
(* succeeded, and only when the experience after that success is at least  *)
(* 250000 * 2^prestige.                                                    *)
(***************************************************************************)
C4_PrestigeOnlyOnSuccess ==
  [][ \A p \in PlayerIds :
        players'[p].prestige # players[p].prestige
        => /\ Serves("crime")
           /\ last'.actor = p
           /\ last'.outcome = "success"
           /\ players[p].xp + CrimeXp(last'.type)
                >= 250000 * Pow2(players[p].prestige) ]_vars

(***************************************************************************)
(* C5.  A crime attempt by a player whose rank index is below the crime's  *)
(* unlock rank index is rejected and changes no player record and appends  *)
(* no job record.                                                          *)
(***************************************************************************)
C5_RankGate ==
  [][ (/\ Serves("crime")
       /\ RankedBuild
       /\ last'.type \in DOMAIN crimeTypesFixed
       /\ LadderIndex(players[last'.actor].rank) < LadderIndex(UnlockRank(last'.type)))
      => /\ players' = players
         /\ jobs' = jobs
         /\ last'.status = 403 ]_vars

C5_Witness ==
  /\ last.op = "crime"
  /\ last.outcome = "rank"
  /\ last.type = "legendary_heist"
  /\ players[last.actor].rank = "Boss"
  /\ jobs = << >>

(***************************************************************************)
(* C6.  A crime attempt by an incarcerated player (expiry present and in   *)
(* the future) is rejected whatever the crime id and whatever the rank,    *)
(* and changes no player record and appends no job record.                 *)
(***************************************************************************)
C6_PrisonGate ==
  [][ (/\ Serves("crime")
       /\ Incarcerated(last'.actor))
      => /\ players' = players
         /\ jobs' = jobs
         /\ last'.outcome \in {"prison", "rank", "invalid"}
         /\ Catalogued(last'.type) => last'.status = 403 ]_vars

C6_Witness ==
  /\ last.op = "crime"
  /\ last.outcome = "prison"
  /\ Incarcerated(last.actor)
  /\ RankedBuild
  /\ LadderIndex(players[last.actor].rank) >= LadderIndex(UnlockRank(last.type))
  /\ Len(jobs) = 1

(***************************************************************************)
(* C7.  Whenever a crime attempt succeeds, stored cash grows by a reward   *)
(* between cashMin and cashMax of the crime, and stored experience grows   *)
(* by exactly the crime's experience amount unless a prestige rollover     *)
(* resets it in the same attempt.                                          *)
(***************************************************************************)
C7_SuccessReward ==
  [][ (Serves("crime") /\ RankedBuild /\ last'.outcome = "success")
      => LET a == last'.actor IN
         /\ (players'[a].cash - players[a].cash) \in CashRange(last'.type)
         /\ players'[a].prestige = players[a].prestige
              => players'[a].xp = players[a].xp + CrimeXp(last'.type) ]_vars

(***************************************************************************)
(* C8.  Stored heat is never below 0: every success stores                 *)
(* heat = max(0, previous heat + heat delta), also for a negative delta.   *)
(***************************************************************************)
C8_HeatFloor ==
  [][ /\ \A p \in PlayerIds : players'[p].heat >= 0
      /\ (/\ nreq' = nreq + 1
          /\ last'.op \in {"crime", "job"}
          /\ last'.outcome = "success")
         => players'[last'.actor].heat
              = Max0(players[last'.actor].heat + HeatDelta(last'.type)) ]_vars

(***************************************************************************)
(* C9.  Whenever a crime attempt fails, the incarceration expiry becomes   *)
(* exactly now + the crime's jail duration, and cash, experience, heat,    *)
(* rank and prestige are what they were before the attempt.                *)
(***************************************************************************)
C9_FailureFrame ==
  [][ (Serves("crime") /\ last'.outcome = "failure")
      => LET a == last'.actor IN
         /\ players'[a].in_prison_until = now + JailSeconds(last'.type)
         /\ players'[a].cash = players[a].cash
         /\ players'[a].xp = players[a].xp
         /\ players'[a].heat = players[a].heat
         /\ players'[a].rank = players[a].rank
         /\ players'[a].prestige = players[a].prestige ]_vars

(***************************************************************************)
(* C10.  Paying bail while incarcerated with cash >= cost, where           *)
(* cost = ceil(minutes remaining) * 100 (500 for exactly 5 minutes),       *)
(* clears the expiry, takes exactly cost from cash, appends one job record *)
(* of type "bail" and leaves every other field of the record alone.        *)
(***************************************************************************)
\* the least whole number of minutes covering d seconds
MinutesCovering(d) ==
  CHOOSE n \in 0..(d \div 60 + 1) : n * 60 >= d /\ (n - 1) * 60 < d

C10_BailPaid ==
  [][ LET a == last'.actor
          remaining == players[a].in_prison_until - now
          cost == MinutesCovering(remaining) * 100
      IN (Serves("bail") /\ Incarcerated(a) /\ players[a].cash >= cost)
         => /\ last'.status = 200
            /\ players' = [players EXCEPT ![a].cash = @ - cost,
                                          ![a].in_prison_until = NULL]
            /\ players'[a].xp = players[a].xp
            /\ players'[a].rank = players[a].rank
            /\ players'[a].prestige = players[a].prestige
            /\ players'[a].heat = players[a].heat
            /\ players'[a].respect = players[a].respect
            /\ Len(jobs') = Len(jobs) + 1
            /\ SubSeq(jobs', 1, Len(jobs)) = jobs
            /\ jobs'[Len(jobs')].type = "bail"
            /\ jobs'[Len(jobs')].player_id = a
            /\ remaining = 300 => players'[a].cash = players[a].cash - 500 ]_vars

C10_Witness ==
  /\ last.op = "bail"
  /\ last.outcome = "paid"
  /\ last.msg.cash = 500
  /\ players[last.actor].in_prison_until = NULL
  /\ Len(jobs) = 2
  /\ jobs[2].type = "bail"
  /\ jobs[1].prison_end - jobs[1].prison_start = 300

(***************************************************************************)
(* C11.  A bail request of a player who is Free, or whose cash is below    *)
(* the bail cost (100 per started minute of the remaining sentence), is    *)
(* rejected with status 400: no player row changes, the expiry stays what  *)
(* it was, and no job record is appended.                                  *)
(***************************************************************************)
C11_BailRejected ==
  [][ LET a == last'.actor
          remaining == players[a].in_prison_until - now
          cost == MinutesCovering(remaining) * 100
      IN (Serves("bail") /\ (~Incarcerated(a) \/ players[a].cash < cost))
         => /\ last'.status = 400
            /\ players' = players
            /\ players'[a].in_prison_until = players[a].in_prison_until
            /\ players'[a].cash = players[a].cash
            /\ jobs' = jobs ]_vars

\* both rejections are reached: here the one for lack of cash, of a player
\* still serving the sentence of the failed crime recorded just before
C11_Witness ==
  /\ last.op = "bail"
  /\ last.outcome = "poor"
  /\ last.status = 400
  /\ Incarcerated(last.actor)
  /\ players[last.actor].cash < last.msg.cash
  /\ Len(jobs) = 1
  /\ jobs[1].prison_end > now

(***************************************************************************)
(* C12.  A bust-out whose target does not exist or is Free (never jailed,  *)
(* or jailed with an expiry that has passed) is rejected with status 400   *)
(* before any random draw is made: no player row changes and no job record *)
(* is appended, whoever the rescuer is.                                    *)
(***************************************************************************)
C12_BustRejected ==
  [][ LET t == last'.target IN
      (Serves("bust") /\ (t \notin PlayerIds \/ ~Incarcerated(t)))
      => /\ last'.status = 400
         /\ roll' = NULL
         /\ players' = players
         /\ jobs' = jobs ]_vars

\* the rejected target is a player whose sentence has run out
C12_Witness ==
  /\ last.op = "bust"
  /\ last.status = 400
  /\ roll = NULL
  /\ last.target \in PlayerIds
  /\ players[last.target].in_prison_until # NULL
  /\ players[last.target].in_prison_until <= now
  /\ Len(jobs) = 1

(***************************************************************************)
(* C13.  A successful bust-out clears the target's prison expiry and       *)
(* appends exactly one job record of type "bust" against the rescuer; no   *)
(* other column of any row changes, so when rescuer and target are         *)
(* different players the rescuer's record is unchanged.                    *)
(***************************************************************************)
C13_BustSuccess ==
  [][ LET a == last'.actor
          t == last'.target
      IN (Serves("bust") /\ last'.outcome = "bust")
         => /\ last'.status = 200
            /\ t \in PlayerIds
            /\ Incarcerated(t)
            /\ players'[t].in_prison_until = NULL
            /\ players' = [players EXCEPT ![t].in_prison_until = NULL]
            /\ a # t => players'[a] = players[a]
            /\ Len(jobs') = Len(jobs) + 1
            /\ SubSeq(jobs', 1, Len(jobs)) = jobs
            /\ jobs'[Len(jobs')].type = "bust"
            /\ jobs'[Len(jobs')].player_id = a ]_vars

\* a rescuer frees another player who was serving the sentence of a failed crime
C13_Witness ==
  /\ last.op = "bust"
  /\ last.outcome = "bust"
  /\ last.actor # last.target
  /\ players[last.target].in_prison_until = NULL
  /\ players[last.actor].in_prison_until = NULL
  /\ Len(jobs) = 2
  /\ jobs[1].player_id = last.target
  /\ jobs[1].prison_end > now
  /\ jobs[2].type = "bust"
  /\ jobs[2].player_id = last.actor

(***************************************************************************)
(* C14.  A failed bust-out sets the rescuer's prison expiry to exactly     *)
(* now + 5 minutes, appends exactly one job record of type "bust_fail"     *)
(* against the rescuer, and leaves the target's record unchanged: the      *)
(* target stays Incarcerated with the same expiry.                         *)
(***************************************************************************)
C14_BustFailure ==
  [][ LET a == last'.actor
          t == last'.target
      IN (Serves("bust") /\ last'.outcome = "bust_fail")
         => /\ players'[a].in_prison_until = now + 300
            /\ Len(jobs') = Len(jobs) + 1
            /\ SubSeq(jobs', 1, Len(jobs)) = jobs
            /\ jobs'[Len(jobs')].type = "bust_fail"
            /\ jobs'[Len(jobs')].player_id = a
            /\ players'[t] = players[t]
            /\ players'[t].in_prison_until = players[t].in_prison_until
            /\ players'[t].in_prison_until > now' ]_vars

\* the part of C14 that leaves out the target: it holds on every failed bust
C14_RescuerJailed ==
  [][ LET a == last'.actor
      IN (Serves("bust") /\ last'.outcome = "bust_fail")
         => /\ players' = [players EXCEPT ![a].in_prison_until = now + 300]
            /\ Len(jobs') = Len(jobs) + 1
            /\ jobs'[Len(jobs')].type = "bust_fail"
            /\ jobs'[Len(jobs')].player_id = a ]_vars

\* the target's record changes on a failed bust only when the target is the rescuer
C14_TargetKeptUnlessSelf ==
  [][ (Serves("bust") /\ last'.outcome = "bust_fail" /\ last'.actor # last'.target)
      => players'[last'.target] = players[last'.target] ]_vars

(***************************************************************************)
(* C15.  A bust-out that passes the target test succeeds exactly when the  *)
(* random draw in [0,1) is below 0.2 + 0.05 * rankIndex, where rankIndex   *)
(* is the position 0..9 of the rescuer's rank in the ladder: 0.35 for a    *)
(* Muscle, and never more than 0.65, the chance of a Godfather.  The draw  *)
(* is the fraction roll / RandDen.                                         *)
(***************************************************************************)
C15_BustChance ==
  [][ LET a == last'.actor
          t == last'.target
          rankIndex == LadderIndex(players[a].rank)
      IN (Serves("bust") /\ t \in PlayerIds /\ Incarcerated(t))
         => /\ roll' \in 0..(RandDen - 1)
            /\ players[a].rank \in { e[1] : e \in Ladder }
            /\ rankIndex \in 0..9
            /\ 20 + 5 * rankIndex <= 65
            /\ last'.outcome \in {"bust", "bust_fail"}
            /\ last'.outcome = "bust" <=> roll' * 100 < (20 + 5 * rankIndex) * RandDen
            /\ players[a].rank = "Muscle"
                 => (last'.outcome = "bust" <=> roll' * 100 < 35 * RandDen)
            /\ players[a].rank = "Godfather"
                 => (last'.outcome = "bust" <=> roll' * 100 < 65 * RandDen) ]_vars

\* a Muscle succeeds on a draw between the Street Rat chance and 0.35
C15_Witness ==
  /\ last.op = "bust"
  /\ last.outcome = "bust"
  /\ players[last.actor].rank = "Muscle"
  /\ roll * 100 >= 20 * RandDen
  /\ roll * 100 < 35 * RandDen
  /\ players[last.target].in_prison_until = NULL

(***************************************************************************)
(* C16.  Every crime attempt that reaches the random draw appends exactly  *)
(* one job record, carrying the experience/rank/prestige snapshot on       *)
(* success or the jail start and end on failure; every rejected request    *)
(* (unknown crime, rank too low, in prison, bail and bust rejections)      *)
(* appends none; and no step changes or removes a record already stored.   *)
(***************************************************************************)
LedgerStep ==
  /\ Len(jobs') >= Len(jobs)
  /\ SubSeq(jobs', 1, Len(jobs)) = jobs
  /\ (nreq' = nreq + 1 /\ last'.status >= 400) => jobs' = jobs
  /\ (Serves("crime") /\ last'.outcome \in {"success", "failure"})
     => LET row == jobs'[Len(jobs')] IN
        /\ Len(jobs') = Len(jobs) + 1
        /\ row.type = last'.type
        /\ row.player_id = last'.actor
        /\ row.result = last'.msg
        /\ last'.outcome = "success"
             => /\ row.xp_at_time # NULL
                /\ row.rank_at_time # NoRank
                /\ row.prestige_at_time # NULL
        /\ last'.outcome = "failure"
             => /\ row.prison_start = now
                /\ row.prison_end = players'[last'.actor].in_prison_until

C16_JobLedger == [][LedgerStep]_vars

\* the ledger itself is append-only in every build, one row per resolved request
C16_AppendOnly ==
  [][ /\ Len(jobs') >= Len(jobs)
      /\ SubSeq(jobs', 1, Len(jobs)) = jobs
      /\ (nreq' = nreq + 1 /\ last'.status >= 400) => jobs' = jobs
      /\ (nreq' = nreq + 1 /\ last'.status = 200)
         => /\ Len(jobs') = Len(jobs) + 1
            /\ jobs'[Len(jobs')].type = (CASE last'.op \in {"crime", "job"} -> last'.type
                                           [] last'.op = "bail" -> "bail"
                                           [] OTHER -> last'.outcome)
            /\ jobs'[Len(jobs')].player_id = last'.actor ]_vars

\* the snapshot and the jail times are stored by the crimes of build "fixed"
C16_FixedSnapshot == [][build = "fixed" => LedgerStep]_vars

(***************************************************************************)
(* C17.  In sequential use the player record read back after a crime       *)
(* attempt differs from the record before it by exactly the outcome the    *)
(* attempt's message reports: the cash and experience the message says     *)
(* were earned are the amounts added, a rank named in the message is the   *)
(* stored rank, a prestige level named in the message is the stored        *)
(* prestige, a failure changes only the expiry, and no other row changes.  *)
(***************************************************************************)
RoundTripStep ==
  (Serves("crime") /\ RankedBuild /\ last'.status = 200)
  => LET a == last'.actor
         m == last'.msg
         pre == players[a]
         post == players'[a]
     IN /\ \A p \in PlayerIds \ {a} : players'[p] = players[p]
        /\ last'.outcome = "success"
             => /\ post.cash = pre.cash + m.cash
                /\ m.prestige = NULL
                     => /\ post.xp = pre.xp + m.xp
                        /\ post.prestige = pre.prestige
                /\ m.prestige # NULL => post.prestige = m.prestige
                /\ m.rank # NoRank => post.rank = m.rank
                /\ (m.rank = NoRank /\ m.prestige = NULL) => post.rank = pre.rank
                /\ post.in_prison_until = pre.in_prison_until
        /\ last'.outcome = "failure"
             => post = [pre EXCEPT !.in_prison_until = now + JailSeconds(last'.type)]

C17_RoundTrip == [][RoundTripStep]_vars

\* without a prestige in the message or in the stored record the round trip holds
C17_RoundTripNoPrestige ==
  [][ (/\ last'.op = "crime"
       /\ last'.msg.prestige = NULL
       /\ players'[last'.actor].prestige = players[last'.actor].prestige)
      => RoundTripStep ]_vars

(***************************************************************************)
(* C18.  Every registered account has exactly one player record, created   *)
(* together with the account and starting Free with cash 1000, experience  *)
(* 0, rank Street Rat and prestige 0; no reachable state, also after a     *)
(* registration step has failed, holds an account without its player       *)
(* record.  Checked where no request is between its two INSERTs for the    *)
(* account: the state every later request sees.                            *)
(***************************************************************************)
PlayersOf(uid) == { j \in 1..Len(owner) : owner[j].user_id = uid }

BeingRegistered(uid) ==
  \E r \in RegSlots : regs[r].pc = "insert_player" /\ regs[r].uid = uid

C18_AccountHasPlayer ==
  \A uid \in 1..Len(users) :
    ~BeingRegistered(uid)
    => /\ Cardinality(PlayersOf(uid)) = 1
       /\ \A j \in PlayersOf(uid) : players[j] = NewPlayer

\* what registration does keep: never two player records for one account, every
\* player record belongs to an account and starts from the defaults
C18_PlayerRowsSound ==
  /\ Len(players) = Len(owner)
  /\ \A uid \in 1..Len(users) : Cardinality(PlayersOf(uid)) <= 1
  /\ \A j \in 1..Len(owner) :
       /\ owner[j].user_id \in 1..Len(users)
       /\ players[j] = NewPlayer
       /\ players[j].in_prison_until = NULL
       /\ toLowerCase(owner[j].name) = users[owner[j].user_id].username

(***************************************************************************)
(* C19.  The first user who registers receives role admin and every user   *)
(* registered after that one receives role user, also when two             *)
(* registration requests interleave on an empty users table.               *)
(***************************************************************************)
C19_FirstUserAdmin ==
  \A i \in 1..Len(users) : users[i].role = (IF i = 1 THEN "admin" ELSE "user")

\* the first row is always an admin; the later rows are what the race spoils
C19_FirstRowAdmin ==
  Len(users) >= 1 => users[1].role = "admin"

(***************************************************************************)
(* C20.  Incarceration is a two-state machine per player, derived from the *)
(* expiry: a Free player becomes Incarcerated only through that player's   *)
(* own failed crime or own failed bust; an Incarcerated player becomes     *)
(* Free only through the expiry passing, that player's own paid bail, or a *)
(* successful bust targeting that player; and no other step changes any    *)
(* player's expiry.                                                        *)
(***************************************************************************)
IncarceratedNext(p) ==
  players'[p].in_prison_until # NULL /\ players'[p].in_prison_until > now'

OwnFailure(p) ==
  /\ nreq' = nreq + 1
  /\ last'.actor = p
  /\ \/ last'.op = "crime" /\ last'.outcome = "failure"
     \/ last'.op = "bust" /\ last'.outcome = "bust_fail"

Released(p) ==
  /\ nreq' = nreq + 1
  /\ \/ last'.op = "bail" /\ last'.outcome = "paid" /\ last'.actor = p
     \/ last'.op = "bust" /\ last'.outcome = "bust" /\ last'.target = p

ExpiryPassed(p) ==
  /\ now' > now
  /\ players'[p] = players[p]
  /\ players[p].in_prison_until <= now'

C20_TwoStateMachine ==
  [][ \A p \in PlayerIds :
        /\ (~Incarcerated(p) /\ IncarceratedNext(p)) => OwnFailure(p)
        /\ (Incarcerated(p) /\ ~IncarceratedNext(p)) => (ExpiryPassed(p) \/ Released(p))
        /\ players'[p].in_prison_until # players[p].in_prison_until
             => (OwnFailure(p) \/ Released(p)) ]_vars

\* a player jailed by a failed crime is Free again because the expiry has passed
C20_Witness ==
  /\ Len(jobs) = 1
  /\ last.op = "crime"
  /\ last.outcome = "failure"
  /\ jobs[1].prison_end > jobs[1].prison_start
  /\ players[last.actor].in_prison_until = jobs[1].prison_end
  /\ jobs[1].prison_end <= now
  /\ ~Incarcerated(last.actor)

(***************************************************************************)
(* C21.  In every step, for every player: the stored experience does not   *)
(* decrease, except in a step that sets it to 0 and raises prestige by     *)
(* exactly one; prestige never decreases, rises by at most one in a step,  *)
(* and changes only in a step that serves a crime attempt of that player.  *)
(***************************************************************************)
C21_XpMonotone ==
  [][ \A p \in PlayerIds :
        /\ players'[p].xp >= 0
        /\ players'[p].xp < players[p].xp
             => /\ players'[p].xp = 0
                /\ players'[p].prestige = players[p].prestige + 1
        /\ players'[p].prestige >= players[p].prestige
        /\ players'[p].prestige <= players[p].prestige + 1
        /\ players'[p].prestige # players[p].prestige
             => (Serves("crime") /\ last'.actor = p) ]_vars

\* a second rollover: experience back at 0 from 500000, prestige 1 become 2
C21_Witness ==
  /\ last.op = "crime"
  /\ last.outcome = "success"
  /\ players[last.actor].xp = 0
  /\ players[last.actor].prestige = 2
  /\ Len(jobs) = 1
  /\ jobs[1].result.xp = 500

(***************************************************************************)
(* C22.  When two crime attempts of the same player interleave: once both  *)
(* have completed, the stored rank is the ladder lookup of the stored      *)
(* experience; and a rank or a prestige level that an attempt's message    *)
(* names is the one the attempt's own UPDATE stored, the rank being the    *)
(* lookup of the experience stored at that moment, never a value derived   *)
(* from a stale read.                                                      *)
(***************************************************************************)
Quiescent == \A r \in RaceSlots : reqs[r].pc = "idle"

QuiescentNext == \A r \in RaceSlots : reqs'[r].pc = "idle"

\* the step in which request r fixes the rank its message names
NamesRank(r) == reqs'[r].ranked # NoRank /\ reqs[r].ranked = NoRank

\* the step in which request r fixes the prestige level its message names
NamesPrestige(r) == reqs'[r].prestiged # NULL /\ reqs[r].prestiged = NULL

RaceRankStep ==
  /\ QuiescentNext => players'[RaceActor].rank = RankAt(players'[RaceActor].xp)
  /\ \A r \in RaceSlots :
       /\ NamesRank(r)
            => /\ players'[RaceActor].rank = reqs'[r].ranked
               /\ reqs'[r].ranked = RankAt(players'[RaceActor].xp)
       /\ NamesPrestige(r)
            => players'[RaceActor].prestige = reqs'[r].prestiged

C22_InterleavedRank == [][RaceRankStep]_vars

(***************************************************************************)
(* C23.  When crime attempts of the same player interleave and succeed     *)
(* without a prestige rollover, no cash or experience update is lost: the  *)
(* UPDATE of each attempt adds the crime's experience and the attempt's    *)
(* reward to the values stored at that moment, not to the values the       *)
(* attempt read at its start, and no other step of a crime attempt changes *)
(* cash or experience; two such attempts leave both sums in the record.    *)
(***************************************************************************)
\* request r runs the UPDATE of a successful attempt that is not a rollover
SuccessUpdate(r) ==
  /\ reqs[r].pc = "write"
  /\ reqs[r].op = "crime"
  /\ reqs[r].success
  /\ reqs'[r].pc # "write"
  /\ reqs'[r].prestiged = NULL

C23_NoLostUpdate ==
  [][ LET a == RaceActor IN
      /\ \A r \in RaceSlots :
           SuccessUpdate(r)
           => /\ players'[a].xp = players[a].xp + CrimeXp(reqs[r].type)
              /\ players'[a].cash = players[a].cash + reqs[r].cash
      /\ (\A r \in RaceSlots : reqs[r].op = "crime" \/ reqs'[r].op = "crime" \/ reqs[r] = reqs'[r])
          /\ (\A r \in RaceSlots : ~SuccessUpdate(r))
          /\ players'[a].prestige = players[a].prestige
         => /\ players'[a].xp = players[a].xp
            /\ players'[a].cash = players[a].cash ]_vars

\* both attempts read xp 90 and cash 1180 before either wrote; the record holds
\* both increments (the stale rank shows that the attempts did interleave)
C23_Witness ==
  /\ build = "fixed"
  /\ Quiescent
  /\ Len(jobs) = 2
  /\ jobs[1].xp_at_time = 95
  /\ jobs[2].xp_at_time = 95
  /\ jobs[1].result.cash + jobs[2].result.cash = 60
  /\ players[RaceActor].xp = 100
  /\ players[RaceActor].cash = 1240

(***************************************************************************)
(* C24.  Bail never leaves a player's stored cash below 0 and charges a    *)
(* player at most once per incarceration, also when two bail requests of   *)
(* the same player interleave between the cash test and the cash UPDATE:   *)
(* cash is only ever reduced for a player who is Incarcerated at that      *)
(* moment, and never to less than 0.                                       *)
(***************************************************************************)
C24_BailOnce ==
  [][ \A p \in PlayerIds :
        /\ players'[p].cash >= 0
        /\ players'[p].cash < players[p].cash => Incarcerated(p) ]_vars

(***************************************************************************)
(* C25.  A failed bust never moves the rescuer's prison expiry to an       *)
(* earlier time than it was before the attempt: a rescuer who is already   *)
(* Incarcerated with more than 5 minutes remaining is not left with a      *)
(* shorter sentence by failing a bust.                                     *)
(***************************************************************************)
C25_FailedBustNeverShortens ==
  [][ LET a == last'.actor IN
      (Serves("bust") /\ last'.outcome = "bust_fail" /\ Incarcerated(a))
      => /\ players'[a].in_prison_until # NULL
         /\ players'[a].in_prison_until >= players[a].in_prison_until ]_vars

\* a Free rescuer, or one with at most 5 minutes left, is never left better off
C25_ShortSentenceKept ==
  [][ LET a == last'.actor IN
      (/\ Serves("bust")
       /\ last'.outcome = "bust_fail"
       /\ (Incarcerated(a) => players[a].in_prison_until - now <= 300))
      => /\ players'[a].in_prison_until = now + 300
         /\ Incarcerated(a) => players'[a].in_prison_until >= players[a].in_prison_until ]_vars

(***************************************************************************)
(* C26.  A bust whose target is the acting player never clears the acting  *)
(* player's own prison expiry: an Incarcerated player cannot free themself *)
(* through bust; of their own requests only a paid bail ends their         *)
(* incarceration early.                                                    *)
(***************************************************************************)
C26_NoSelfBust ==
  [][ /\ (/\ Serves("bust")
          /\ last'.actor = last'.target
          /\ last'.target \in PlayerIds
          /\ Incarcerated(last'.actor))
         => /\ players'[last'.actor].in_prison_until # NULL
            /\ last'.outcome # "bust"
      /\ \A p \in PlayerIds :
           (/\ Incarcerated(p)
            /\ players'[p].in_prison_until = NULL
            /\ nreq' = nreq + 1
            /\ last'.actor = p)
           => (last'.op = "bail" /\ last'.outcome = "paid") ]_vars

\* a bust of another player never touches the expiry of a rescuer who succeeds
C26_OtherTargetOnly ==
  [][ (Serves("bust") /\ last'.outcome = "bust" /\ last'.actor # last'.target)
      => players'[last'.actor].in_prison_until = players[last'.actor].in_prison_until ]_vars

====
